---------------------------- MODULE Spec2Model ----------------------------
(***************************************************************************)
(* A model of src/main.py, the audio-to-PDF processor: extract_data (the   *)
(* field extractor), match_template (the template matcher) and the three   *)
(* Streamlit pipelines (uploaded file, live recording, sample text).       *)
(*                                                                         *)
(* Text is modelled by TLA+ strings, which are sequences of characters:    *)
(* Len, SubSeq and \o are the only string operations used.  The external   *)
(* models (spaCy, faster-whisper, sentence-transformers, reportlab) are    *)
(* nondeterministic choices over the results they can return.              *)
(***************************************************************************)
EXTENDS Integers, Sequences, FiniteSets, TLC

VARIABLES
    \* extract_data(text)
    epc,        \* position in extract_data
    text,       \* its argument
    ents,       \* doc.ents, as returned by nlp(text)
    idx,        \* number of entities the for loop has consumed
    data,       \* the FieldMap under construction (insertion-ordered dict)
    \* match_template(text, templates)
    mpc,        \* position in match_template
    templates,  \* the catalog, as its keys in iteration order
    scores,     \* the scores dict: a sequence of [k, v] in insertion order
    best_match, \* the returned key
    error,      \* the exception match_template raised
    \* one run of the Streamlit script
    pc,         \* position in the script run
    mode,       \* which tab's button started the run
    uploaded,   \* st.file_uploader holds a file
    transcript, \* the transcript of the run
    extracted,  \* the FieldMap of the run
    json_file,  \* contents of extracted_data.json
    downloads,  \* the download buttons offered, in order
    doc_type,   \* the document-type tag handed to generate_pdf
    pdf,        \* outcome of generate_pdf
    messages,   \* st.success / st.error messages shown, in order
    uncaught,   \* an exception left the script run
    steps       \* the pipeline steps the run has started, in order

evars == <<epc, text, ents, idx, data>>
mvars == <<mpc, templates, scores, best_match, error>>
pvars == <<pc, mode, uploaded, transcript, extracted, json_file, downloads,
           doc_type, pdf, messages, uncaught, steps>>
vars == <<epc, text, ents, idx, data, mpc, templates, scores, best_match, error,
          pc, mode, uploaded, transcript, extracted, json_file, downloads,
          doc_type, pdf, messages, uncaught, steps>>

None == "<None>"
\* the pdf variable before generate_pdf is called, and when it raised
NoPdf == [status |-> "none", title |-> None, table |-> <<>>]
PdfRaised == [status |-> "raised", title |-> None, table |-> <<>>]

-----------------------------------------------------------------------------
(* Bounds of the model.                                                    *)

\* doc.ents holds at most MaxEnts entities.
MaxEnts == 2
\* An entity spans at most MaxEntWords whitespace-separated words.
MaxEntWords == 2
\* Entities lie within the first MaxNerWords words of the text.
MaxNerWords == 6
\* doc.ents holds at most PipeMaxEnts entities in a run of the script.
PipeMaxEnts == 1
\* Similarity scores are drawn from 0..MaxScore.
MaxScore == 2

-----------------------------------------------------------------------------
(* Characters and strings.                                                 *)

Digit == {"0", "1", "2", "3", "4", "5", "6", "7", "8", "9"}
LowerAlpha == {"a", "b", "c", "d", "e", "f", "g", "h", "i", "j", "k", "l", "m",
               "n", "o", "p", "q", "r", "s", "t", "u", "v", "w", "x", "y", "z"}
UpperAlpha == {"A", "B", "C", "D", "E", "F", "G", "H", "I", "J", "K", "L", "M",
               "N", "O", "P", "Q", "R", "S", "T", "U", "V", "W", "X", "Y", "Z"}
Whitespace == {" "}
UpperSeq == <<"A", "B", "C", "D", "E", "F", "G", "H", "I", "J", "K", "L", "M",
              "N", "O", "P", "Q", "R", "S", "T", "U", "V", "W", "X", "Y", "Z">>
LowerSeq == <<"a", "b", "c", "d", "e", "f", "g", "h", "i", "j", "k", "l", "m",
              "n", "o", "p", "q", "r", "s", "t", "u", "v", "w", "x", "y", "z">>

CharAt(s, i) == SubSeq(s, i, i)

LowerChar(c) ==
    IF c \in UpperAlpha
    THEN LowerSeq[CHOOSE k \in 1..26 : UpperSeq[k] = c]
    ELSE c

\* str.lower(), by halves to keep the recursion shallow
RECURSIVE Lower(_)
Lower(s) ==
    IF Len(s) = 0 THEN s
    ELSE IF Len(s) = 1 THEN LowerChar(s)
    ELSE LET h == Len(s) \div 2
         IN Lower(SubSeq(s, 1, h)) \o Lower(SubSeq(s, h + 1, Len(s)))

\* sub in s
Contains(sub, s) ==
    \E i \in 1..(Len(s) - Len(sub) + 1) : SubSeq(s, i, i + Len(sub) - 1) = sub

-----------------------------------------------------------------------------
(* Regular expressions, matched as Python's re matches them: a search      *)
(* tries the start positions left to right and, at one start, the          *)
(* alternatives in order, every repetition greedy, backtracking on         *)
(* failure.  Ends(re, s, i) is the sequence of all positions at which a    *)
(* match of re that starts at i can end, in that order of preference: its  *)
(* head is the match re.search reports.                                    *)

\* an unbounded repetition count
Inf == 0 - 1

Set(S) == [t |-> "set", s |-> S]
Lit(c) == [t |-> "set", s |-> {c}]
Cat(rs) == [t |-> "cat", rs |-> rs]
Alt(a, b) == [t |-> "alt", rs |-> <<a, b>>]
Rep(r, lo, hi) == [t |-> "rep", rs |-> <<r>>, lo |-> lo, hi |-> hi]
Opt(r) == Rep(r, 0, 1)
Word(w) == Cat([k \in 1..Len(w) |-> Lit(CharAt(w, k))])

RECURSIVE Ends(_, _, _), EndsAll(_, _, _)
Ends(re, s, i) ==
    CASE re.t = "set" ->
            IF i <= Len(s) /\ CharAt(s, i) \in re.s THEN <<i + 1>> ELSE <<>>
      [] re.t = "cat" ->
            IF Len(re.rs) = 0 THEN <<i>>
            ELSE EndsAll(Cat(Tail(re.rs)), s, Ends(Head(re.rs), s, i))
      [] re.t = "alt" ->
            Ends(re.rs[1], s, i) \o Ends(re.rs[2], s, i)
      [] re.t = "rep" ->
            (IF re.hi = 0 THEN <<>>
             ELSE EndsAll(Rep(re.rs[1],
                              IF re.lo > 0 THEN re.lo - 1 ELSE 0,
                              IF re.hi = Inf THEN Inf ELSE re.hi - 1),
                          s,
                          SelectSeq(Ends(re.rs[1], s, i), LAMBDA e : e > i)))
            \o (IF re.lo = 0 THEN <<i>> ELSE <<>>)
EndsAll(re, s, starts) ==
    IF Len(starts) = 0 THEN <<>>
    ELSE Ends(re, s, Head(starts)) \o EndsAll(re, s, Tail(starts))

\* re.search(re, s): group(0) of the match, or None
re_search(re, s) ==
    LET hits == {i \in 1..(Len(s) + 1) : Len(Ends(re, s, i)) > 0}
    IN IF hits = {} THEN None
       ELSE LET i == CHOOSE h \in hits : \A g \in hits : h <= g
            IN SubSeq(s, i, Head(Ends(re, s, i)) - 1)

D == Set(Digit)
Sep == Opt(Set(Whitespace \cup {"-"}))

\* (\+?\d{1,2}\s?)?\(?\d{3}\)?[\s-]?\d{3}[\s-]?\d{4}
PHONE_RE ==
    Cat(<<Opt(Cat(<<Opt(Lit("+")), Rep(D, 1, 2), Opt(Set(Whitespace))>>)),
          Opt(Lit("(")), Rep(D, 3, 3), Opt(Lit(")")),
          Sep, Rep(D, 3, 3), Sep, Rep(D, 4, 4)>>)

\* [a-zA-Z0-9._%+-]+@[a-zA-Z0-9.-]+\.[a-zA-Z]{2,}
EMAIL_RE ==
    Cat(<<Rep(Set(LowerAlpha \cup UpperAlpha \cup Digit \cup {".", "_", "%", "+", "-"}), 1, Inf),
          Lit("@"),
          Rep(Set(LowerAlpha \cup UpperAlpha \cup Digit \cup {".", "-"}), 1, Inf),
          Lit("."),
          Rep(Set(LowerAlpha \cup UpperAlpha), 2, Inf)>>)

\* \d+(?:,\d{3})*(?:\.\d{2})?
NUMBER_RE ==
    Cat(<<Rep(D, 1, Inf),
          Rep(Cat(<<Lit(","), Rep(D, 3, 3)>>), 0, Inf),
          Opt(Cat(<<Lit("."), Rep(D, 2, 2)>>))>>)

\* \$\s*<number>|<number>\s*dollars
AMOUNT_RE ==
    Alt(Cat(<<Lit("$"), Rep(Set(Whitespace), 0, Inf), NUMBER_RE>>),
        Cat(<<NUMBER_RE, Rep(Set(Whitespace), 0, Inf), Word("dollars")>>))

-----------------------------------------------------------------------------
(* The texts of the model.                                                 *)

\* Transcripts faster-whisper can return (transcribe_audio's result).
Transcripts ==
    { "",
      "I need an invoice for $1,500 for web development.",
      "Contact me at 555-123-4567 or john.smith@example.com",
      "John Smith met Jane Doe",
      "INVOICE per our Agreement",
      "Please pay the bill of 20 dollars",
      "Payment due",
      "The contract is worth $500",
      "My application fee is $ 25.00",
      "Call Billy" }

Options == {"Invoice Request", "Agreement Discussion", "Application Submission"}

sample_content(option) ==
    CASE option = "Invoice Request" ->
            "Hello, this is John Smith. I need to create an invoice for services rendered on April 10, 2025. The amount is $1,500 for web development work. Please contact me at 555-123-4567 or john.smith@example.com."
      [] option = "Agreement Discussion" ->
            "Hi, my name is Sarah Johnson from ABC Company. We'd like to establish a service agreement beginning on May 15, 2025. Please send the contract to our office at 123 Business Street, New York."
      [] option = "Application Submission" ->
            "Good day, I'm David Brown. I'm submitting my application for the software developer position. I can be reached at 800-555-7890. I have 5 years of experience in the field."

Texts == Transcripts \cup {sample_content(o) : o \in Options}

\* What the scans of extract_data find in each text of the model, computed
\* once per text.
PhoneTable == {<<t, re_search(PHONE_RE, t)>> : t \in Texts}
EmailTable == {<<t, re_search(EMAIL_RE, t)>> : t \in Texts}
AmountTable == {<<t, re_search(AMOUNT_RE, t)>> : t \in Texts}
LowerTable == {<<t, Lower(t)>> : t \in Texts}
Lookup(table, t) == (CHOOSE p \in table : p[1] = t)[2]

\* re.search(r"(\+?\d{1,2}\s?)?...", text)
phone_match(t) == Lookup(PhoneTable, t)
\* re.search(r"[a-zA-Z0-9._%+-]+@...", text)
email_match(t) == Lookup(EmailTable, t)
\* re.search(r"\$\s*\d+...|...\s*dollars", text)
amount_match(t) == Lookup(AmountTable, t)
\* text.lower()
text_lower(t) == Lookup(LowerTable, t)

-----------------------------------------------------------------------------
(* The entity recogniser.  nlp(text).ents is a sequence of non-overlapping *)
(* spans of the text in document order, each with a label; which spans and *)
(* labels the statistical model picks is not decided by this program, so   *)
(* it is a choice among the spans on word boundaries.  A span may leave    *)
(* out a leading "$" and a trailing "." or ",", which the tokenizer splits *)
(* off.                                                                    *)

Labels == {"PERSON", "DATE", "ORG", "GPE", "MONEY", "CARDINAL"}

WordStarts(s) ==
    {i \in 1..Len(s) : CharAt(s, i) # " " /\ (i = 1 \/ CharAt(s, i - 1) = " ")}
WordEnds(s) ==
    {i \in 1..Len(s) : CharAt(s, i) # " " /\ (i = Len(s) \/ CharAt(s, i + 1) = " ")}
\* the number of the word position i lies in
WordIndex(s, i) == Cardinality({j \in WordStarts(s) : j <= i})
SpanStarts(s) ==
    WordStarts(s)
    \cup {i + 1 : i \in {j \in WordStarts(s) : CharAt(s, j) = "$" /\ j \notin WordEnds(s)}}
SpanEnds(s) ==
    WordEnds(s)
    \cup {i - 1 : i \in {j \in WordEnds(s) : CharAt(s, j) \in {".", ","} /\ j \notin WordStarts(s)}}

Entities(s) ==
    {[label_ |-> l, text |-> SubSeq(s, a, b), start |-> a, end |-> b] :
        l \in Labels,
        a \in {x \in SpanStarts(s) : WordIndex(s, x) <= MaxNerWords},
        b \in {x \in SpanEnds(s) : WordIndex(s, x) <= MaxNerWords} }
EntityChoices(s) ==
    {e \in Entities(s) :
        /\ e.start <= e.end
        /\ WordIndex(s, e.end) - WordIndex(s, e.start) < MaxEntWords}
EntityTable == {<<t, EntityChoices(t)>> : t \in Texts}

\* the sequences of at most n entities nlp(s).ents can be
RECURSIVE EntsFrom(_, _, _)
EntsFrom(choices, from, n) ==
    {<<>>} \cup
    (IF n = 0 THEN {}
     ELSE UNION {{<<e>> \o rest : rest \in EntsFrom(choices, e.end, n - 1)} :
                    e \in {c \in choices : c.start > from}})
nlp_ents(s, n) == EntsFrom(Lookup(EntityTable, s), 0, n)

-----------------------------------------------------------------------------
(* The FieldMap: a Python dict, which keeps its keys in insertion order.   *)
(* It is a sequence of [k, v] records with distinct keys.                  *)

Keys(d) == {d[i].k : i \in 1..Len(d)}
Has(d, key) == key \in Keys(d)
Get(d, key) == d[CHOOSE i \in 1..Len(d) : d[i].k = key].v
\* d[key] = value
Put(d, key, value) ==
    IF Has(d, key)
    THEN [i \in 1..Len(d) |-> IF d[i].k = key THEN [k |-> key, v |-> value] ELSE d[i]]
    ELSE Append(d, [k |-> key, v |-> value])

-----------------------------------------------------------------------------
(* datetime.now().strftime("%B %d, %Y")                                    *)

MonthNames == <<"January", "February", "March", "April", "May", "June", "July",
                "August", "September", "October", "November", "December">>
DigitSeq == <<"0", "1", "2", "3", "4", "5", "6", "7", "8", "9">>
DigitStr(n) == DigitSeq[n + 1]
\* %d: the day of the month, zero-padded to two digits
Pad2(n) == DigitStr(n \div 10) \o DigitStr(n % 10)
\* %Y: the year, four digits
Year4(n) == Pad2(n \div 100) \o Pad2(n % 100)
strftime(now) == MonthNames[now.month] \o " " \o Pad2(now.day) \o ", " \o Year4(now.year)

\* the readings of the clock the model draws from
Clock == {[year |-> 2025, month |-> 4, day |-> 9],
          [year |-> 2026, month |-> 11, day |-> 23]}

-----------------------------------------------------------------------------
(* extract_data                                                            *)

\* the field an entity label fills, if any
FieldOf(label) ==
    CASE label = "PERSON" -> "Name"
      [] label = "DATE" -> "Date"
      [] label = "ORG" -> "Organization"
      [] label = "GPE" -> "Location"
      [] label = "MONEY" -> "Amount"
      [] OTHER -> None

\* EntityStep without the `not in data` tests: the last entity of a kind wins
EntityStepOverwrite(d, ent) ==
    LET f == FieldOf(ent.label_)
    IN IF f # None THEN Put(d, f, ent.text) ELSE d

\* one iteration of `for ent in doc.ents`
EntityStep(d, ent) ==
    LET f == FieldOf(ent.label_)
    IN IF f # None /\ ~Has(d, f) THEN Put(d, f, ent.text) ELSE d

\* phone number extraction
PhoneStep(d, t) ==
    IF phone_match(t) # None THEN Put(d, "Phone", phone_match(t)) ELSE d

\* EmailStep as an elif of the phone test: skipped when a phone was found
EmailStepElif(d, t) ==
    IF ~Has(d, "Phone") /\ email_match(t) # None
    THEN Put(d, "Email", email_match(t))
    ELSE d

\* email extraction
EmailStep(d, t) ==
    IF email_match(t) # None THEN Put(d, "Email", email_match(t)) ELSE d

\* DateStep without the fallback
DateStepNoFallback(d, now) == d

\* if no date was found, today's date
DateStep(d, now) ==
    IF ~Has(d, "Date") THEN Put(d, "Date", strftime(now)) ELSE d

IsInvoiceText(t) ==
    \/ Contains("invoice", text_lower(t))
    \/ Contains("bill", text_lower(t))
    \/ Contains("payment", text_lower(t))
IsAgreementText(t) ==
    \/ Contains("agreement", text_lower(t))
    \/ Contains("contract", text_lower(t))

\* ClassifyStep with the agreement test first
ClassifyStepAgreementFirst(d, t) ==
    IF IsAgreementText(t)
    THEN Put(d, "Document_Type", "Agreement")
    ELSE IF IsInvoiceText(t)
    THEN LET d1 == Put(d, "Document_Type", "Invoice")
         IN IF ~Has(d1, "Amount") /\ amount_match(t) # None
            THEN Put(d1, "Amount", amount_match(t))
            ELSE d1
    ELSE Put(d, "Document_Type", "Application")

\* ClassifyStep with the amount scan overriding the entity's amount
ClassifyStepScanWins(d, t) ==
    IF IsInvoiceText(t)
    THEN LET d1 == Put(d, "Document_Type", "Invoice")
         IN IF amount_match(t) # None
            THEN Put(d1, "Amount", amount_match(t))
            ELSE d1
    ELSE IF IsAgreementText(t)
    THEN Put(d, "Document_Type", "Agreement")
    ELSE Put(d, "Document_Type", "Application")

\* ClassifyStep with the amount scan run for every document type
ClassifyStepScanAlways(d, t) ==
    LET d1 == Put(d, "Document_Type",
                  IF IsInvoiceText(t) THEN "Invoice"
                  ELSE IF IsAgreementText(t) THEN "Agreement"
                  ELSE "Application")
    IN IF ~Has(d1, "Amount") /\ amount_match(t) # None
       THEN Put(d1, "Amount", amount_match(t))
       ELSE d1

\* the document type, and the fallback scan for an amount
ClassifyStep(d, t) ==
    IF IsInvoiceText(t)
    THEN LET d1 == Put(d, "Document_Type", "Invoice")
         IN IF ~Has(d1, "Amount") /\ amount_match(t) # None
            THEN Put(d1, "Amount", amount_match(t))
            ELSE d1
    ELSE IF IsAgreementText(t)
    THEN Put(d, "Document_Type", "Agreement")
    ELSE Put(d, "Document_Type", "Application")

RECURSIVE Walk(_, _)
Walk(d, es) == IF Len(es) = 0 THEN d ELSE Walk(EntityStep(d, Head(es)), Tail(es))

\* extract_data(text), given what nlp and the clock return
extract_data(t, es, now) ==
    ClassifyStep(DateStep(EmailStep(PhoneStep(Walk(<<>>, es), t), t), now), t)

-----------------------------------------------------------------------------
(* The values of the variables an operation does not use.                  *)

ExtractIdle ==
    /\ epc = "idle" /\ text = "" /\ ents = <<>> /\ idx = 0 /\ data = <<>>
MatchIdle ==
    /\ mpc = "idle" /\ templates = <<>> /\ scores = <<>> /\ best_match = None
    /\ error = None
PipeIdle ==
    /\ pc = "idle" /\ mode = None /\ uploaded = FALSE /\ transcript = None
    /\ extracted = <<>> /\ json_file = None /\ downloads = <<>>
    /\ doc_type = None /\ pdf = NoPdf /\ messages = <<>> /\ uncaught = FALSE
    /\ steps = <<>>

-----------------------------------------------------------------------------
(* extract_data, statement by statement.                                   *)

InitExtract ==
    /\ epc = "nlp" /\ text \in Transcripts
    /\ ents = <<>> /\ idx = 0 /\ data = <<>>
    /\ MatchIdle /\ PipeIdle

\* doc = nlp(text); data = {}
Nlp ==
    /\ epc = "nlp"
    /\ ents' \in nlp_ents(text, MaxEnts)
    /\ epc' = "walk"
    /\ UNCHANGED <<text, idx, data, mvars, pvars>>

\* for ent in doc.ents: one iteration
WalkEntity ==
    /\ epc = "walk" /\ idx < Len(ents)
    /\ data' = EntityStep(data, ents[idx + 1])
    /\ idx' = idx + 1
    /\ UNCHANGED <<epc, text, ents, mvars, pvars>>

\* the loop ends
WalkDone ==
    /\ epc = "walk" /\ idx = Len(ents)
    /\ epc' = "phone"
    /\ UNCHANGED <<text, ents, idx, data, mvars, pvars>>

PhoneScan ==
    /\ epc = "phone"
    /\ data' = PhoneStep(data, text)
    /\ epc' = "email"
    /\ UNCHANGED <<text, ents, idx, mvars, pvars>>

EmailScan ==
    /\ epc = "email"
    /\ data' = EmailStep(data, text)
    /\ epc' = "date"
    /\ UNCHANGED <<text, ents, idx, mvars, pvars>>

DateFallback ==
    /\ epc = "date"
    /\ \E now \in Clock : data' = DateStep(data, now)
    /\ epc' = "classify"
    /\ UNCHANGED <<text, ents, idx, mvars, pvars>>

\* the document type and the amount fallback; return data
Classify ==
    /\ epc = "classify"
    /\ data' = ClassifyStep(data, text)
    /\ epc' = "returned"
    /\ UNCHANGED <<text, ents, idx, mvars, pvars>>

NextExtract ==
    \/ Nlp \/ WalkEntity \/ WalkDone \/ PhoneScan \/ EmailScan
    \/ DateFallback \/ Classify

SpecExtract == InitExtract /\ [][NextExtract]_vars

-----------------------------------------------------------------------------
(* Properties of extract_data, checked under SpecExtract.                  *)

Returned == epc = "returned"
\* the positions of the entities with label l among the first n of doc.ents
Positions(l, n) == {i \in 1..n : ents[i].label_ = l}
First(S) == CHOOSE i \in S : \A j \in S : i <= j

\* C1: whatever the transcript and whatever entities the recogniser returns
\* (none included), the FieldMap extract_data returns has the keys Date and
\* Document_Type.
C1_DateAndTypePresent ==
    Returned => Has(data, "Date") /\ Has(data, "Document_Type")
\* the empty transcript, for which the recogniser returns no entity
C1_Witness ==
    /\ Returned /\ text = "" /\ ents = <<>>
    /\ Keys(data) = {"Date", "Document_Type"}

\* the document type the priority order gives each text of the model
C2_Expected ==
    {<<t, IF \/ Contains("invoice", Lower(t))
             \/ Contains("bill", Lower(t))
             \/ Contains("payment", Lower(t))
          THEN "Invoice"
          ELSE IF Contains("agreement", Lower(t)) \/ Contains("contract", Lower(t))
          THEN "Agreement"
          ELSE "Application">> : t \in Texts}
\* C2: Document_Type is one of Invoice, Agreement, Application and follows
\* the priority order on the lower-cased text, whatever the entities:
\* Invoice if the text contains invoice, bill or payment, else Agreement if
\* it contains agreement or contract, else Application.
C2_DocumentTypePriority ==
    Returned =>
        /\ Get(data, "Document_Type") \in {"Invoice", "Agreement", "Application"}
        /\ Get(data, "Document_Type") = Lookup(C2_Expected, text)
\* a text with both an invoice and an agreement keyword, and some entities
C2_Witness ==
    /\ Returned /\ text = "INVOICE per our Agreement" /\ Len(ents) = MaxEnts
    /\ Get(data, "Document_Type") = "Invoice"

C3_Fields ==
    {<<"PERSON", "Name">>, <<"DATE", "Date">>, <<"ORG", "Organization">>,
     <<"GPE", "Location">>, <<"MONEY", "Amount">>}
\* C3: at every point of extract_data, during the entity walk and after it,
\* a field whose category has occurred among the entities walked so far
\* holds the text of the first such entity (so it is assigned once, later
\* entities of the category and later steps leave it alone), and during the
\* walk a field whose category has not occurred is absent.
C3_FirstEntityWins ==
    epc \in {"walk", "phone", "email", "date", "classify", "returned"} =>
        \A p \in C3_Fields :
            LET at == Positions(p[1], idx)
            IN IF at # {}
               THEN Has(data, p[2]) /\ Get(data, p[2]) = ents[First(at)].text
               ELSE epc = "walk" => ~Has(data, p[2])
\* the PERSON entities John Smith then Jane Doe give Name = John Smith
C3_Witness ==
    /\ Returned /\ text = "John Smith met Jane Doe" /\ Len(ents) = 2
    /\ ents[1].label_ = "PERSON" /\ ents[1].text = "John Smith"
    /\ ents[2].label_ = "PERSON" /\ ents[2].text = "Jane Doe"
    /\ Get(data, "Name") = "John Smith"

C4_Text == "I need an invoice for $1,500 for web development."
\* C4 as claimed: for that transcript the result has Document_Type = Invoice
\* and Amount = $1,500 whatever entities the recogniser returns.
C4_AmountAlwaysFromText ==
    (Returned /\ text = C4_Text) =>
        /\ Get(data, "Document_Type") = "Invoice"
        /\ Has(data, "Amount") /\ Get(data, "Amount") = "$1,500"
\* C4, amended: for that transcript Document_Type = Invoice whatever the
\* entities; Amount is $1,500 when the recogniser returns no MONEY entity,
\* and otherwise the text of its first MONEY entity.
C4_AmountFromEntityOrText ==
    (Returned /\ text = C4_Text) =>
        /\ Get(data, "Document_Type") = "Invoice"
        /\ Has(data, "Amount")
        /\ Get(data, "Amount") =
              IF Positions("MONEY", Len(ents)) = {} THEN "$1,500"
              ELSE ents[First(Positions("MONEY", Len(ents)))].text
\* the recogniser labels 1,500, without the dollar sign, as MONEY
C4_Witness ==
    /\ Returned /\ text = C4_Text /\ Len(ents) = 1
    /\ ents[1].label_ = "MONEY" /\ ents[1].text = "1,500"
    /\ Get(data, "Amount") = "1,500"

\* the leftmost match of the amount pattern in texts of the model
C5_Scan ==
    {<<C4_Text, "$1,500">>,
     <<"Please pay the bill of 20 dollars", "20 dollars">>,
     <<"INVOICE per our Agreement", None>>,
     <<"Payment due", None>>,
     <<"Call Billy", None>>}
\* C5: the fallback scan decides Amount only for a text classified Invoice
\* in which the entity walk set no Amount: Amount is then the leftmost match
\* of the amount pattern, or absent when there is none; for a text
\* classified Agreement or Application, Amount is present exactly when a
\* MONEY entity was found, also when the text holds a dollar amount.
C5_FallbackOnlyForInvoice ==
    Returned =>
        LET money == Positions("MONEY", Len(ents))
            found == amount_match(text)
        IN /\ money # {} => /\ Has(data, "Amount")
                            /\ Get(data, "Amount") = ents[First(money)].text
           /\ (money = {} /\ Get(data, "Document_Type") = "Invoice") =>
                 /\ Has(data, "Amount") <=> found # None
                 /\ Has(data, "Amount") => Get(data, "Amount") = found
                 /\ \A p \in C5_Scan : p[1] = text => found = p[2]
           /\ Get(data, "Document_Type") # "Invoice" =>
                 (Has(data, "Amount") <=> money # {})
\* an Agreement text holding a dollar amount, no MONEY entity: no Amount
C5_Witness ==
    /\ Returned /\ text = "The contract is worth $500"
    /\ Len(ents) = MaxEnts /\ Positions("MONEY", Len(ents)) = {}
    /\ amount_match(text) = "$500"
    /\ ~Has(data, "Amount")

C6_Text == "Contact me at 555-123-4567 or john.smith@example.com"
\* C6: Phone and Email are decided by the text alone: each is present
\* exactly when its pattern matches in the text and is then the leftmost
\* match, whatever the entities (so two runs on one text agree on both);
\* the contact transcript gives 555-123-4567 and john.smith@example.com.
C6_PhoneEmailFromTextOnly ==
    Returned =>
        /\ Has(data, "Phone") <=> phone_match(text) # None
        /\ Has(data, "Phone") => Get(data, "Phone") = phone_match(text)
        /\ Has(data, "Email") <=> email_match(text) # None
        /\ Has(data, "Email") => Get(data, "Email") = email_match(text)
        /\ text = C6_Text =>
              /\ Has(data, "Phone") /\ Get(data, "Phone") = "555-123-4567"
              /\ Has(data, "Email") /\ Get(data, "Email") = "john.smith@example.com"
\* the contact transcript, with the phone number labelled as an entity
C6_Witness ==
    /\ Returned /\ text = C6_Text /\ Len(ents) = MaxEnts
    /\ \E i \in 1..Len(ents) : ents[i].text = "555-123-4567"
    /\ Get(data, "Phone") = "555-123-4567"
    /\ Get(data, "Email") = "john.smith@example.com"

-----------------------------------------------------------------------------
(* match_template.  The embedding model decides the similarities; they are *)
(* drawn from 0..MaxScore, which keeps the order and the ties of the       *)
(* floating-point scores.                                                  *)

TEMPLATES == <<"invoice", "agreement", "application">>

\* the catalogs match_template is called with: any keys of TEMPLATES, in
\* any iteration order, none included
Catalogs ==
    {c \in UNION {[1..n -> {TEMPLATES[i] : i \in 1..Len(TEMPLATES)}] : n \in 0..Len(TEMPLATES)} :
        \A i, j \in 1..Len(c) : i # j => c[i] # c[j]}

\* max(scores, key=scores.get) over the entries from position i on, best
\* being the position of the largest so far: a later entry replaces it only
\* when strictly larger
RECURSIVE MaxFrom(_, _, _)
MaxFrom(sc, i, best) ==
    IF i > Len(sc) THEN sc[best].k
    ELSE MaxFrom(sc, i + 1, IF sc[i].v > sc[best].v THEN i ELSE best)

\* max with a later entry replacing the best when equal too
RECURSIVE MaxFromLast(_, _, _)
MaxFromLast(sc, i, best) ==
    IF i > Len(sc) THEN sc[best].k
    ELSE MaxFromLast(sc, i + 1, IF sc[i].v >= sc[best].v THEN i ELSE best)

\* max returning the last of the largest entries
py_max_last(sc) ==
    IF Len(sc) = 0 THEN [raised |-> TRUE, value |-> None]
    ELSE [raised |-> FALSE, value |-> MaxFromLast(sc, 2, 1)]

\* max(scores, key=scores.get, default=None)
py_max_default(sc) ==
    IF Len(sc) = 0 THEN [raised |-> FALSE, value |-> None]
    ELSE [raised |-> FALSE, value |-> MaxFrom(sc, 2, 1)]

\* max(scores, key=scores.get): ValueError on an empty dict
py_max(sc) ==
    IF Len(sc) = 0 THEN [raised |-> TRUE, value |-> None]
    ELSE [raised |-> FALSE, value |-> MaxFrom(sc, 2, 1)]

InitMatch ==
    /\ mpc = "encode" /\ templates \in Catalogs
    /\ scores = <<>> /\ best_match = None /\ error = None
    /\ ExtractIdle /\ PipeIdle

\* query_emb = embed_model.encode(text): returns, or raises
EncodeQuery ==
    /\ mpc = "encode"
    /\ \/ mpc' = "loop" /\ error' = error
       \/ mpc' = "raised" /\ error' = "EncodeError"
    /\ UNCHANGED <<templates, scores, best_match, evars, pvars>>

\* one iteration of `for key, tdata in templates.items()`
ScoreTemplate ==
    /\ mpc = "loop" /\ Len(scores) < Len(templates)
    /\ \/ \E similarity \in 0..MaxScore :
            /\ scores' = Put(scores, templates[Len(scores) + 1], similarity)
            /\ UNCHANGED <<mpc, error>>
       \/ /\ mpc' = "raised" /\ error' = "EncodeError"
          /\ scores' = scores
    /\ UNCHANGED <<templates, best_match, evars, pvars>>

\* best_match = max(scores, key=scores.get); return best_match
ReturnBest ==
    /\ mpc = "loop" /\ Len(scores) = Len(templates)
    /\ IF py_max(scores).raised
       THEN mpc' = "raised" /\ error' = "ValueError" /\ best_match' = best_match
       ELSE mpc' = "returned" /\ error' = error /\ best_match' = py_max(scores).value
    /\ UNCHANGED <<templates, scores, evars, pvars>>

NextMatch == EncodeQuery \/ ScoreTemplate \/ ReturnBest

SpecMatch == InitMatch /\ [][NextMatch]_vars

-----------------------------------------------------------------------------
(* Properties of match_template, checked under SpecMatch.                  *)

ScoreOf(key) == Get(scores, key)
PositionOf(key) == CHOOSE i \in 1..Len(templates) : templates[i] = key

\* C7: for a non-empty catalog the key match_template returns is in the
\* catalog, no key scores higher, and every key before it in the catalog's
\* iteration order scores strictly lower (the first of the tied keys is
\* returned); so a key that scores at least as high as every other key
\* scores the same as the returned key.
C7_FirstMaximum ==
    (mpc = "returned" /\ Len(templates) > 0) =>
        /\ \E i \in 1..Len(templates) : templates[i] = best_match
        /\ \A i \in 1..Len(templates) : ScoreOf(templates[i]) <= ScoreOf(best_match)
        /\ \A i \in 1..(PositionOf(best_match) - 1) :
              ScoreOf(templates[i]) < ScoreOf(best_match)
        /\ \A i \in 1..Len(templates) :
              (\A j \in 1..Len(templates) : ScoreOf(templates[j]) <= ScoreOf(templates[i]))
                  => ScoreOf(templates[i]) = ScoreOf(best_match)
\* the second and third keys tie above the first: the second is returned
C7_Witness ==
    /\ mpc = "returned" /\ Len(templates) = 3
    /\ ScoreOf(templates[1]) < ScoreOf(templates[2])
    /\ ScoreOf(templates[2]) = ScoreOf(templates[3])
    /\ best_match = templates[2]

\* C8: called with an empty catalog, match_template raises an error and
\* returns no key.
C8_EmptyCatalogRaises ==
    Len(templates) = 0 =>
        /\ mpc # "returned" /\ best_match = None
        /\ mpc = "raised" => error \in {"ValueError", "EncodeError"}
\* the empty catalog, the query encoded: max raises ValueError
C8_Witness ==
    /\ Len(templates) = 0 /\ mpc = "raised" /\ error = "ValueError"

-----------------------------------------------------------------------------
(* json.dump(extracted, f, indent=4)                                       *)

\* a character inside a JSON string
JsonChar(c) ==
    IF c = "\"" THEN "\\\"" ELSE IF c = "\\" THEN "\\\\" ELSE c
RECURSIVE JsonEscape(_)
JsonEscape(s) ==
    IF Len(s) = 0 THEN s
    ELSE IF Len(s) = 1 THEN JsonChar(s)
    ELSE LET h == Len(s) \div 2
         IN JsonEscape(SubSeq(s, 1, h)) \o JsonEscape(SubSeq(s, h + 1, Len(s)))
JsonString(s) == "\"" \o JsonEscape(s) \o "\""
RECURSIVE JsonItems(_, _)
JsonItems(d, i) ==
    IF i > Len(d) THEN ""
    ELSE "\n    " \o JsonString(d[i].k) \o ": " \o JsonString(d[i].v)
         \o (IF i < Len(d) THEN "," ELSE "") \o JsonItems(d, i + 1)
json_dumps(d) == IF Len(d) = 0 THEN "{}" ELSE "{" \o JsonItems(d, 1) \o "\n}"

-----------------------------------------------------------------------------
(* generate_pdf: the parts of the document that depend on its arguments.   *)

pdf_title(dt) ==
    IF dt = "invoice" THEN "INVOICE"
    ELSE IF dt = "agreement" THEN "SERVICE AGREEMENT"
    ELSE "APPLICATION FORM"

\* the rows of the two-column table
RECURSIVE OtherRows(_, _)
OtherRows(d, i) ==
    IF i > Len(d) THEN <<>>
    ELSE (IF d[i].k # "Date" /\ d[i].k # "Document_Type"
          THEN <<(<<d[i].k \o ":", d[i].v>>)>>
          ELSE <<>>) \o OtherRows(d, i + 1)
\* the loop alone, as if Date were not pinned or skipped
RECURSIVE RowsInMapOrder(_, _)
RowsInMapOrder(d, i) ==
    IF i > Len(d) THEN <<>>
    ELSE (IF d[i].k # "Document_Type"
          THEN <<(<<d[i].k \o ":", d[i].v>>)>>
          ELSE <<>>) \o RowsInMapOrder(d, i + 1)
data_table_unpinned(d) == RowsInMapOrder(d, 1)
data_table(d) ==
    (IF Has(d, "Date") THEN <<(<<"Date:", Get(d, "Date")>>)>> ELSE <<>>)
    \o OtherRows(d, 1)

generate_pdf(d, dt) ==
    [status |-> "written", title |-> pdf_title(dt), table |-> data_table(d)]

-----------------------------------------------------------------------------
(* One run of the Streamlit script.  A press of a button reruns the script *)
(* from the top; the run goes through the pipeline of the tab whose button *)
(* was pressed.  The three tabs hold the same pipeline, with the           *)
(* differences stated in the actions.                                      *)

Modes == {"upload", "record", "sample"}

\* the order of the pipeline's statements in each tab, with render moved
\* before the choice of the document type
NextStageRenderFirst(stage) ==
    CASE stage = "transcribe" -> "extract"
      [] stage = "extract" -> "save_json"
      [] stage = "save_json" -> "offer_json"
      [] stage = "offer_json" -> "render"
      [] stage = "render" -> "pick"
      [] stage = "pick" -> "done"

\* the order of the pipeline's statements in each tab
NextStage(stage) ==
    CASE stage = "transcribe" -> "extract"
      [] stage = "extract" -> "save_json"
      [] stage = "save_json" -> "offer_json"
      [] stage = "offer_json" -> "pick"
      [] stage = "pick" -> "render"
      [] stage = "render" -> "done"

\* an exception of generate_pdf with no try around the call
RenderHandlerNone(m) == [caught |-> FALSE, message |-> None]

\* the handler of an exception raised by generate_pdf: in each tab the
\* except clause around the call
RenderHandler(m) == [caught |-> TRUE, message |-> "Error generating PDF"]

\* the handler of an exception raised by transcribe_audio: the except
\* clause around the recording tab's block; the other tabs have none
TranscribeHandler(m) ==
    IF m = "record"
    THEN [caught |-> TRUE, message |-> "Error recording audio"]
    ELSE [caught |-> FALSE, message |-> None]

\* the script starts from the top: the upload tab reports the file it holds
RunStarts(m) ==
    /\ mode' = m
    /\ messages' = IF uploaded THEN <<"Audio file uploaded successfully.">> ELSE <<>>
    /\ extracted' = <<>> /\ json_file' = None /\ downloads' = <<>>
    /\ doc_type' = None /\ pdf' = NoPdf /\ uncaught' = FALSE /\ steps' = <<>>
    /\ UNCHANGED <<uploaded, evars, mvars>>

InitPipe ==
    /\ pc = "idle" /\ mode = None /\ uploaded = FALSE /\ transcript = None
    /\ extracted = <<>> /\ json_file = None /\ downloads = <<>>
    /\ doc_type = None /\ pdf = NoPdf /\ messages = <<>> /\ uncaught = FALSE
    /\ steps = <<>>
    /\ ExtractIdle /\ MatchIdle

\* st.file_uploader receives a file
UploadFile ==
    /\ pc = "idle" /\ ~uploaded
    /\ uploaded' = TRUE
    /\ UNCHANGED <<pc, mode, transcript, extracted, json_file, downloads,
                   doc_type, pdf, messages, uncaught, steps, evars, mvars>>

\* st.button("Process Uploaded Audio")
ClickProcessUploaded ==
    /\ pc = "idle" /\ uploaded
    /\ RunStarts("upload")
    /\ transcript' = None
    /\ pc' = "transcribe"

\* st.button("Start Recording")
ClickStartRecording ==
    /\ pc = "idle"
    /\ RunStarts("record")
    /\ transcript' = None
    /\ pc' = "recording"

\* sd.rec ... sf.write: the recording is saved, or an exception is caught
\* by the except clause of the tab
Record ==
    /\ pc = "recording"
    /\ \/ pc' = "process_button" /\ messages' = Append(messages, "Recording complete!")
       \/ pc' = "done" /\ messages' = Append(messages, "Error recording audio")
    /\ UNCHANGED <<mode, uploaded, transcript, extracted, json_file, downloads,
                   doc_type, pdf, uncaught, steps, evars, mvars>>

\* st.button("Process Recording"), nested in the Start Recording block:
\* what it returns is Streamlit's to decide
ProcessRecordingButton ==
    /\ pc = "process_button"
    /\ \E pressed \in BOOLEAN : pc' = IF pressed THEN "transcribe" ELSE "done"
    /\ UNCHANGED <<mode, uploaded, transcript, extracted, json_file, downloads,
                   doc_type, pdf, messages, uncaught, steps, evars, mvars>>

\* st.button("Process Sample"): the transcript is the sample text, no audio
\* is transcribed
ClickProcessSample ==
    /\ pc = "idle"
    /\ RunStarts("sample")
    /\ \E option \in Options : transcript' = sample_content(option)
    /\ pc' = NextStage("transcribe")

\* transcript = transcribe_audio(path): returns, or raises
Transcribe ==
    /\ pc = "transcribe"
    /\ steps' = Append(steps, "transcribe_audio")
    /\ \/ /\ transcript' \in Transcripts
          /\ pc' = NextStage("transcribe")
          /\ UNCHANGED <<messages, uncaught>>
       \/ /\ transcript' = transcript
          /\ pc' = "done"
          /\ uncaught' = ~TranscribeHandler(mode).caught
          /\ messages' = IF TranscribeHandler(mode).caught
                         THEN Append(messages, TranscribeHandler(mode).message)
                         ELSE messages
    /\ UNCHANGED <<mode, uploaded, extracted, json_file, downloads, doc_type,
                   pdf, evars, mvars>>

\* extracted = extract_data(transcript)
Extract ==
    /\ pc = "extract"
    /\ steps' = Append(steps, "extract_data")
    /\ \E es \in nlp_ents(transcript, PipeMaxEnts), now \in Clock :
          extracted' = extract_data(transcript, es, now)
    /\ pc' = NextStage("extract")
    /\ UNCHANGED <<mode, uploaded, transcript, json_file, downloads, doc_type,
                   pdf, messages, uncaught, evars, mvars>>

\* json.dump(extracted, f, indent=4)
SaveJson ==
    /\ pc = "save_json"
    /\ json_file' = json_dumps(extracted)
    /\ pc' = NextStage("save_json")
    /\ UNCHANGED <<mode, uploaded, transcript, extracted, downloads, doc_type,
                   pdf, messages, uncaught, steps, evars, mvars>>

\* st.download_button("Download JSON data", f, ...)
OfferJson ==
    /\ pc = "offer_json"
    /\ downloads' = Append(downloads, [file_name |-> "extracted_data.json",
                                       content |-> json_file])
    /\ pc' = NextStage("offer_json")
    /\ UNCHANGED <<mode, uploaded, transcript, extracted, json_file, doc_type,
                   pdf, messages, uncaught, steps, evars, mvars>>

\* doc_type = extracted.get("Document_Type", "application").lower()
PickTemplate ==
    /\ pc = "pick"
    /\ doc_type' = Lower(IF Has(extracted, "Document_Type")
                         THEN Get(extracted, "Document_Type")
                         ELSE "application")
    /\ pc' = NextStage("pick")
    /\ UNCHANGED <<mode, uploaded, transcript, extracted, json_file, downloads,
                   pdf, messages, uncaught, steps, evars, mvars>>

\* try: generate_pdf(...); st.success; st.download_button
\* except Exception: st.error
Render ==
    /\ pc = "render"
    /\ steps' = Append(steps, "generate_pdf")
    /\ \/ /\ pdf' = generate_pdf(extracted, doc_type)
          /\ messages' = Append(messages, "PDF created successfully!")
          /\ downloads' = Append(downloads,
                [file_name |-> IF mode = "sample" THEN doc_type \o "_form.pdf"
                               ELSE "filled_form.pdf",
                 content |-> pdf'])
          /\ uncaught' = uncaught
       \/ /\ pdf' = PdfRaised
          /\ uncaught' = ~RenderHandler(mode).caught
          /\ messages' = IF RenderHandler(mode).caught
                         THEN Append(messages, RenderHandler(mode).message)
                         ELSE messages
          /\ downloads' = downloads
    /\ pc' = NextStage("render")
    /\ UNCHANGED <<mode, uploaded, transcript, extracted, json_file, doc_type,
                   evars, mvars>>

\* the run is over; the script waits for the next press
Rerun ==
    /\ pc = "done"
    /\ pc' = "idle"
    /\ UNCHANGED <<mode, uploaded, transcript, extracted, json_file, downloads,
                   doc_type, pdf, messages, uncaught, steps, evars, mvars>>

NextPipe ==
    \/ UploadFile \/ ClickProcessUploaded \/ ClickStartRecording \/ Record
    \/ ProcessRecordingButton \/ ClickProcessSample \/ Transcribe \/ Extract
    \/ SaveJson \/ OfferJson \/ PickTemplate \/ Render \/ Rerun

SpecPipe == InitPipe /\ [][NextPipe]_vars

-----------------------------------------------------------------------------
(* Properties of the script run, checked under SpecPipe.                   *)

IsPrefix(a, b) == Len(a) <= Len(b) /\ SubSeq(b, 1, Len(a)) = a
RenderReached == pc = "render" \/ pdf # NoPdf
\* extracted_data.json holds the FieldMap and is offered for download
JsonOffered ==
    /\ json_file # None
    /\ \E i \in 1..Len(downloads) :
          /\ downloads[i].file_name = "extracted_data.json"
          /\ downloads[i].content = json_file

\* C9: in each mode, when generate_pdf is about to be called the JSON file
\* has been written and offered for download; when generate_pdf raises, the
\* run ends with the message "Error generating PDF" shown, no exception
\* leaves the script, and the JSON file is still the FieldMap's and offered.
C9_RenderFailureCaught ==
    /\ RenderReached => JsonOffered
    /\ pdf = PdfRaised =>
          /\ pc \in {"done", "idle"}
          /\ ~uncaught
          /\ messages[Len(messages)] = "Error generating PDF"
          /\ json_file = json_dumps(extracted)
\* the recording tab: generate_pdf raised inside both try blocks
C9_Witness ==
    /\ pc = "done" /\ mode = "record" /\ pdf = PdfRaised
    /\ messages[Len(messages)] = "Error generating PDF"
    /\ JsonOffered /\ ~uncaught

\* C10 as claimed: a run that gets to render has called transcribe, extract,
\* match and render, in that order.
C10_FourStepsInOrder ==
    (pc = "done" /\ pdf # NoPdf) =>
        steps = <<"transcribe_audio", "extract_data", "match_template", "generate_pdf">>
\* the pipeline functions a run of a mode calls
C10_Calls(m) ==
    IF m = "sample" THEN <<"extract_data", "generate_pdf">>
    ELSE <<"transcribe_audio", "extract_data", "generate_pdf">>
\* C10, amended: a run calls transcribe_audio (not in the sample mode, whose
\* transcript is the sample text), then extract_data, then generate_pdf, in
\* that order and nothing else; a run that gets to render has called them
\* all; match_template is never called: the document type is read from the
\* extracted Document_Type, and that is done before generate_pdf starts.
C10_LinearWithoutMatch ==
    /\ mode \in Modes => IsPrefix(steps, C10_Calls(mode))
    /\ pdf # NoPdf => steps = C10_Calls(mode)
    /\ RenderReached =>
          /\ doc_type \in {"invoice", "agreement", "application"}
          /\ doc_type = Lower(Get(extracted, "Document_Type"))
    /\ mpc = "idle"
\* a sample run that rendered: no transcription, no match
C10_Witness ==
    /\ pc = "done" /\ mode = "sample" /\ pdf.status = "written"
    /\ steps = <<"extract_data", "generate_pdf">>
    /\ doc_type = "agreement"

-----------------------------------------------------------------------------
(***************************************************************************)
(* generate_pdf as a function of its arguments: every FieldMap of at most  *)
(* MaxFields keys, in every key order, with and without Date and           *)
(* Document_Type, is handed to one call.                                   *)
(***************************************************************************)
MaxFields == 3

PdfKeys == {"Name", "Organization", "Date", "Amount", "Location", "Phone",
            "Email", "Document_Type"}
PdfValues == {"x", "y"}
DocTypes == {"invoice", "agreement", "application"}

\* the dicts of at most MaxFields keys: no key twice, any insertion order
FieldMaps ==
    UNION {{d \in [1..n -> [k : PdfKeys, v : PdfValues]] :
                \A i, j \in 1..n : d[i].k = d[j].k => i = j} :
           n \in 0..MaxFields}

InitPdf ==
    /\ ExtractIdle /\ MatchIdle
    /\ pc = "generate_pdf" /\ mode = None /\ uploaded = FALSE
    /\ transcript = None /\ json_file = None /\ downloads = <<>>
    /\ messages = <<>> /\ uncaught = FALSE /\ steps = <<>> /\ pdf = NoPdf
    /\ extracted \in FieldMaps
    /\ doc_type \in DocTypes

\* one call generate_pdf(output_path, extracted, doc_type): it returns with
\* the document built, or doc.build raises
GeneratePdf ==
    /\ pc = "generate_pdf"
    /\ steps' = Append(steps, "generate_pdf")
    /\ \/ /\ pdf' = generate_pdf(extracted, doc_type)
          /\ uncaught' = uncaught
       \/ /\ pdf' = PdfRaised
          /\ uncaught' = TRUE
    /\ pc' = "returned"
    /\ UNCHANGED <<mode, uploaded, transcript, extracted, json_file, downloads,
                   doc_type, messages, evars, mvars>>

NextPdf == GeneratePdf

SpecPdf == InitPdf /\ [][NextPdf]_vars

\* the keys of the FieldMap the call was given, in its iteration order
C11_MapKeys == [i \in 1..Len(extracted) |-> extracted[i].k]

\* the keys the table is to show: Date if present, then the rest in order
C11_RowKeys ==
    (IF \E i \in 1..Len(extracted) : extracted[i].k = "Date"
     THEN <<"Date">> ELSE <<>>)
    \o SelectSeq(C11_MapKeys, LAMBDA k : k \notin {"Date", "Document_Type"})

\* C11: for every FieldMap passed to generate_pdf, the rows of the field
\* table are the Date row first whenever Date is in the map (wherever it
\* sits in the map's order), then one row "key:", value for every other key
\* except Document_Type, in the map's iteration order; no key has two rows
\* and Document_Type is never a row.
C11_TableRows ==
    pdf.status = "written" =>
        LET rows == pdf.table
        IN  /\ Len(rows) = Len(C11_RowKeys)
            /\ \A i \in 1..Len(rows) :
                  /\ Len(rows[i]) = 2
                  /\ rows[i][1] = C11_RowKeys[i] \o ":"
                  /\ \E j \in 1..Len(extracted) :
                        /\ extracted[j].k = C11_RowKeys[i]
                        /\ rows[i][2] = extracted[j].v
            /\ \A i, j \in 1..Len(rows) : rows[i][1] = rows[j][1] => i = j
            /\ \A i \in 1..Len(rows) : rows[i][1] # "Document_Type:"

\* a map with Date last and Document_Type in the middle was rendered: the
\* Date row leads, the Document_Type row is gone
C11_Witness ==
    /\ pc = "returned" /\ pdf.status = "written"
    /\ C11_MapKeys = <<"Name", "Document_Type", "Date">>
    /\ pdf.table = <<(<<"Date:", "y">>), (<<"Name:", "x">>)>>

\* a map without Date was rendered: no Date row, the others in map order
C11_WitnessNoDate ==
    /\ pc = "returned" /\ pdf.status = "written"
    /\ C11_MapKeys = <<"Phone", "Document_Type", "Email">>
    /\ Len(pdf.table) = 2
    /\ pdf.table[1][1] = "Phone:" /\ pdf.table[2][1] = "Email:"

=============================================================================
